---- MODULE Spec2Model ----
(***************************************************************************)
(* Deterministic derivation of passwords, Ed25519 passkeys, signatures and *)
(* key material from a matrix of floats (src/unnamed/part_002, the current *)
(* src/index.ts; src/src/index.ts is its earlier revision).                *)
(*                                                                         *)
(* The library is stateless: every public operation is a pure function.    *)
(* The model runs one call at a time.  A call is started from "idle" with  *)
(* arguments drawn from bounded sets, runs to "returned" or "failed", and  *)
(* leaves behind what it computed: its result or error, the byte strings   *)
(* it fed to sha256 (hashLog), and how many stream blocks, key operations  *)
(* and matrix encodings it performed.                                      *)
(*                                                                         *)
(* sha256 and ed25519 are external (@noble).  sha256 is modelled twice:    *)
(* a digest is identified by its preimage (collision-free), and the bytes  *)
(* of the digests that are read as a byte stream are given by `sha`, a     *)
(* member of a small family of functions fixed in the initial state.       *)
(***************************************************************************)
EXTENDS Integers, Sequences, FiniteSets, TLC

VARIABLES sha, pc, op, args, seed, attempt, index, out, result, error,
          hashLog, blocks, keyOps, encodes, signedMessage

vars == <<sha, pc, op, args, seed, attempt, index, out, result, error,
          hashLog, blocks, keyOps, encodes, signedMessage>>

----------------------------------------------------------------------------
(* Bounds of the model *)

\* bytes of a digest that the model keeps (sha256 yields 32)
BlockLen == 3
\* largest length asked of expandMatrixBytes
MaxExpand == 7
\* number of matrices in the longest list given to a shared operation
MaxGroup == 2
\* rows of the largest matrix given to encodeFloatMatrix alone
MaxRows == 2
\* numbers in the longest row of such a matrix
MaxRowLen == 2

----------------------------------------------------------------------------
(* Bytes and text *)

RECURSIVE concatBytes(_)
concatBytes(arrays) ==
  IF arrays = <<>> THEN <<>> ELSE Head(arrays) \o concatBytes(Tail(arrays))

\* DataView.setUint32(0, n, false): four bytes, most significant first
setUint32(n) ==
  << (n \div 16777216) % 256, (n \div 65536) % 256, (n \div 256) % 256, n % 256 >>

\* the number a 4-byte big-endian field holds
getUint32(b) == ((b[1] * 256 + b[2]) * 256 + b[3]) * 256 + b[4]

\* UTF-8 of one code point (below 0x10000)
utf8Char(cp) ==
  IF cp < 128 THEN << cp >>
  ELSE IF cp < 2048 THEN << 192 + (cp \div 64), 128 + (cp % 64) >>
  ELSE << 224 + (cp \div 4096), 128 + ((cp \div 64) % 64), 128 + (cp % 64) >>

\* a string is the sequence of its code points
RECURSIVE utf8ToBytes(_)
utf8ToBytes(str) ==
  IF str = <<>> THEN <<>> ELSE utf8Char(Head(str)) \o utf8ToBytes(Tail(str))

\* a value that is a string, a Uint8Array, or absent (undefined)
Absent == [kind |-> "absent", v |-> <<>>]
Str(s) == [kind |-> "string", v |-> s]
Bytes(b) == [kind |-> "bytes", v |-> b]

toBytes(value) == IF value.kind = "string" THEN utf8ToBytes(value.v) ELSE value.v

toMessageBytes(message) ==
  IF message.kind = "string" THEN utf8ToBytes(message.v) ELSE message.v

\* JavaScript truthiness of `options?.salt`: undefined and "" are falsy,
\* every Uint8Array (also the empty one) is truthy
Truthy(value) ==
  \/ value.kind = "bytes"
  \/ value.kind = "string" /\ value.v # <<>>

DOMAIN_TAG == utf8ToBytes(<<99,108,97,118,101,58,100,101,116,101,114,109,105,110,105,115,116,105,99,58,118,49>>)
PURPOSE_PASSWORD == utf8ToBytes(<<112,97,115,115,119,111,114,100>>)
PURPOSE_PASSKEY == utf8ToBytes(<<112,97,115,115,107,101,121>>)
PURPOSE_SHARED_PASSKEY == utf8ToBytes(<<115,104,97,114,101,100,45,112,97,115,115,107,101,121>>)
PURPOSE_SIGNATURE == utf8ToBytes(<<115,105,103,110,97,116,117,114,101>>)
\* the tag of the signature purpose used again for shared signatures
purposeSignatureReused == utf8ToBytes(<<115,105,103,110,97,116,117,114,101>>)

PURPOSE_SHARED_SIGNATURE == utf8ToBytes(<<115,104,97,114,101,100,45,115,105,103,110,97,116,117,114,101>>)
PURPOSE_HASH == utf8ToBytes(<<104,97,115,104>>)

\* the six purposes, by name, and the tag of each
Purposes ==
  { "password", "passkey", "shared-passkey", "signature", "shared-signature", "hash" }
purposeTag(name) ==
  CASE name = "password" -> PURPOSE_PASSWORD
    [] name = "passkey" -> PURPOSE_PASSKEY
    [] name = "shared-passkey" -> PURPOSE_SHARED_PASSKEY
    [] name = "signature" -> PURPOSE_SIGNATURE
    [] name = "shared-signature" -> PURPOSE_SHARED_SIGNATURE
    [] name = "hash" -> PURPOSE_HASH

DEFAULT_ALPHABET ==
  <<97,98,99,100,101,102,103,104,105,106,107,108,109,110,111,112,113,114,115,
    116,117,118,119,120,121,122,65,66,67,68,69,70,71,72,73,74,75,76,77,78,79,
    80,81,82,83,84,85,86,87,88,89,90,48,49,50,51,52,53,54,55,56,57,33,64,35,
    36,37,94,38,42,40,41,45,95,61,43,91,93,123,125,59,58,44,46,63,47>>

----------------------------------------------------------------------------
(* Matrices *)

\* A JavaScript value found where a number is expected: a double, given by
\* the fields of its IEEE-754 layout (1 sign bit, 11 exponent bits, 52
\* fraction bits split 20 + 16 + 16), or something that is not a number.
Double(sign, exp, hi, mid, lo) ==
  [isNumber |-> TRUE, sign |-> sign, exp |-> exp, hi |-> hi, mid |-> mid, lo |-> lo]
NotANumber == [isNumber |-> FALSE, sign |-> 0, exp |-> 0, hi |-> 0, mid |-> 0, lo |-> 0]

\* Number.isFinite: exponent 2047 is Infinity (fraction 0) or NaN
isFinite(value) == value.isNumber /\ value.exp # 2047

\* DataView.setFloat64(offset, value, false)
setFloat64(value) ==
  << (value.sign * 128) + (value.exp \div 16),
     ((value.exp % 16) * 16) + (value.hi \div 65536),
     (value.hi \div 256) % 256,
     value.hi % 256,
     value.mid \div 256,
     value.mid % 256,
     value.lo \div 256,
     value.lo % 256 >>

\* an array, or a value that is not one
Arr(items) == [isArray |-> TRUE, items |-> items]
NotAnArray == [isArray |-> FALSE, items |-> <<>>]

RowOk(row) ==
  /\ row.isArray
  /\ \A k \in 1..Len(row.items) : isFinite(row.items[k])

\* "none", or the error assertMatrix throws
assertMatrix(matrix) ==
  IF /\ matrix.isArray
     /\ \A r \in 1..Len(matrix.items) : RowOk(matrix.items[r])
  THEN "none" ELSE "TypeError"

RECURSIVE encodeValues(_)
encodeValues(values) ==
  IF values = <<>> THEN <<>>
  ELSE setFloat64(Head(values)) \o encodeValues(Tail(values))

\* the rows written without the count of their elements
RECURSIVE encodeRowsNoLength(_)
encodeRowsNoLength(rows) ==
  IF rows = <<>> THEN <<>>
  ELSE encodeValues(Head(rows).items) \o encodeRowsNoLength(Tail(rows))

RECURSIVE encodeRows(_)
encodeRows(rows) ==
  IF rows = <<>> THEN <<>>
  ELSE setUint32(Len(Head(rows).items)) \o encodeValues(Head(rows).items)
         \o encodeRows(Tail(rows))

\* [err, bytes]: the canonical bytes, or the error of assertMatrix
encodeFloatMatrix(matrix) ==
  IF assertMatrix(matrix) # "none"
  THEN [err |-> assertMatrix(matrix), bytes |-> <<>>]
  ELSE [err |-> "none",
        bytes |-> setUint32(Len(matrix.items)) \o encodeRows(matrix.items)]

----------------------------------------------------------------------------
(* sha256 and ed25519 *)

\* a digest, identified by the bytes that were hashed
sha256(input) == [preimage |-> input]
NoSeed == [preimage |-> <<>>]

\* the family of byte streams: digest number c of a stream is all zero
\* below `from`, and from there on reads `pat` cyclically
ShaFamily ==
  { [pat |-> << 0, 1, 2, 3, 255, 4 >>, from |-> 0],
    [pat |-> << 0, 26, 52, 62, 200, 171, 27 >>, from |-> 2],
    [pat |-> << 0, 26, 52, 62, 200, 171, 27 >>, from |-> 999] }

\* the bytes of sha256(concatBytes(seed, counterBytes))
sha256Block(s, counterBytes) ==
  LET c == getUint32(counterBytes)
      n == Len(sha.pat)
      rot == Len(s.preimage) % n
  IN [i \in 1..BlockLen |->
        IF c < sha.from THEN 0
        ELSE sha.pat[(((c * BlockLen) + (i - 1) + rot) % n) + 1]]

\* ed25519.getPublicKey, ed25519.sign, ed25519.verify
getPublicKey(privateKey) == [publicOf |-> privateKey]
sign(messageBytes, privateKey) == [msg |-> messageBytes, signer |-> privateKey]
verify(signature, messageBytes, publicKey) ==
  /\ signature.msg = messageBytes
  /\ publicKey = getPublicKey(signature.signer)

----------------------------------------------------------------------------
(* Seed derivation *)

Min(a, b) == IF a < b THEN a ELSE b

\* a salt of which only the first byte is hashed
saltBytesFirstByte(options) ==
  IF Truthy(options.salt) /\ toBytes(options.salt) # <<>>
  THEN << toBytes(options.salt)[1] >> ELSE <<>>

\* `options?.salt ? toBytes(options.salt) : new Uint8Array(0)`
saltBytes(options) == IF Truthy(options.salt) THEN toBytes(options.salt) ELSE <<>>
\* `options?.info ? utf8ToBytes(options.info) : new Uint8Array(0)`
infoBytes(options) == IF Truthy(options.info) THEN utf8ToBytes(options.info.v) ELSE <<>>

\* [err, input, seed]: the bytes fed to sha256 and the digest, or the error
deriveSeed(matrix, purpose, options) ==
  LET data == encodeFloatMatrix(matrix)
      input == concatBytes(<< DOMAIN_TAG, purposeTag(purpose), saltBytes(options),
                              infoBytes(options), data.bytes >>)
  IN IF data.err # "none"
     THEN [err |-> data.err, input |-> <<>>, seed |-> NoSeed]
     ELSE [err |-> "none", input |-> input, seed |-> sha256(input)]

\* deriveSharedSeed without the bytes of `total` in what it hashes
deriveSharedSeedNoTotal(matrix, i, total, purpose, options) ==
  LET data == encodeFloatMatrix(matrix)
      input == concatBytes(<< DOMAIN_TAG, purposeTag(purpose), setUint32(i),
                              saltBytes(options), infoBytes(options), data.bytes >>)
  IN IF i < 0 \/ total <= 1 \/ i >= total
     THEN [err |-> "RangeError", input |-> <<>>, seed |-> NoSeed]
     ELSE IF data.err # "none"
     THEN [err |-> data.err, input |-> <<>>, seed |-> NoSeed]
     ELSE [err |-> "none", input |-> input, seed |-> sha256(input)]

deriveSharedSeed(matrix, i, total, purpose, options) ==
  LET data == encodeFloatMatrix(matrix)
      input == concatBytes(<< DOMAIN_TAG, purposeTag(purpose), setUint32(i),
                              setUint32(total),
                              saltBytes(options), infoBytes(options), data.bytes >>)
  IN IF i < 0 \/ total <= 1 \/ i >= total
     THEN [err |-> "RangeError", input |-> <<>>, seed |-> NoSeed]
     ELSE IF data.err # "none"
     THEN [err |-> data.err, input |-> <<>>, seed |-> NoSeed]
     ELSE [err |-> "none", input |-> input, seed |-> sha256(input)]

\* "none", or the error assertSharedMatrices throws
assertSharedMatrices(matrices) ==
  IF Len(matrices) < 2 THEN "RangeError" ELSE "none"

----------------------------------------------------------------------------
(* Byte expansion *)

\* the while loop of expandBytes: `out` is the array of `length` bytes,
\* filled from `offset` on with the digests of counter, counter + 1, ...
RECURSIVE expandLoop(_, _, _, _, _)
expandLoop(s, length, outBytes, offset, counter) ==
  IF offset < length
  THEN LET block == sha256Block(s, setUint32(counter))
           chunk == Min(Len(block), length - offset)
       IN expandLoop(s, length,
                     [i \in 1..length |->
                        IF i > offset /\ i <= offset + chunk
                        THEN block[i - offset] ELSE outBytes[i]],
                     offset + chunk, counter + 1)
  ELSE [bytes |-> outBytes, counter |-> counter]

\* expandBytes with its counter starting at 1
expandBytesFromOne(s, length) == expandLoop(s, length, [i \in 1..length |-> 0], 0, 1)

expandBytes(s, length) == expandLoop(s, length, [i \in 1..length |-> 0], 0, 0)

----------------------------------------------------------------------------
(* Numbers given as options *)

Undefined == [kind |-> "undefined", n |-> 0]
Integer(n) == [kind |-> "integer", n |-> n]
\* the number n + 1/2
Half(n) == [kind |-> "fraction", n |-> n]

\* Number.isInteger
isInteger(x) == x.kind = "integer"

----------------------------------------------------------------------------
(* Passwords *)

isLower(c) == c >= 97 /\ c <= 122
isUpper(c) == c >= 65 /\ c <= 90
isDigit(c) == c >= 48 /\ c <= 57
isSymbol(c) == ~isLower(c) /\ ~isUpper(c) /\ ~isDigit(c)

\* the four regular expressions tested on the alphabet
alphabetCoversClasses(alphabet) ==
  /\ \E k \in 1..Len(alphabet) : isLower(alphabet[k])
  /\ \E k \in 1..Len(alphabet) : isUpper(alphabet[k])
  /\ \E k \in 1..Len(alphabet) : isDigit(alphabet[k])
  /\ \E k \in 1..Len(alphabet) : isSymbol(alphabet[k])

\* isValidPassword with the four tests joined by || instead of &&
isValidPasswordAnyClass(value) ==
  \/ \E k \in 1..Len(value) : isLower(value[k])
  \/ \E k \in 1..Len(value) : isUpper(value[k])
  \/ \E k \in 1..Len(value) : isDigit(value[k])
  \/ \E k \in 1..Len(value) : isSymbol(value[k])

\* the four regular expressions tested on a candidate
isValidPassword(value) ==
  /\ \E k \in 1..Len(value) : isLower(value[k])
  /\ \E k \in 1..Len(value) : isUpper(value[k])
  /\ \E k \in 1..Len(value) : isDigit(value[k])
  /\ \E k \in 1..Len(value) : isSymbol(value[k])

\* `options.length ?? 16`, `options.alphabet ?? DEFAULT_ALPHABET`
lengthOf(options) ==
  IF options.length.kind = "undefined" THEN Integer(16) ELSE options.length
alphabetOf(options) ==
  IF options.alphabet.kind = "absent" THEN DEFAULT_ALPHABET ELSE options.alphabet.v

\* the length check with its upper limit off by one
lengthInRangeUpTo17(length) == isInteger(length) /\ length.n >= 8 /\ length.n <= 17

lengthInRange(length) == isInteger(length) /\ length.n >= 8 /\ length.n <= 16
\* the size check counting distinct characters and refusing repeated ones
alphabetSizeOkDistinct(alphabet) ==
  LET chars == { alphabet[k] : k \in 1..Len(alphabet) }
  IN Cardinality(chars) = Len(alphabet) /\ Len(alphabet) >= 2 /\ Len(alphabet) <= 256

alphabetSizeOk(alphabet) == Len(alphabet) >= 2 /\ Len(alphabet) <= 256

\* "none", or the error of the checks that precede the derivation
passwordPolicy(options) ==
  IF ~lengthInRange(lengthOf(options)) THEN "RangeError"
  ELSE IF ~alphabetSizeOk(alphabetOf(options)) THEN "RangeError"
  ELSE IF ~alphabetCoversClasses(alphabetOf(options)) THEN "RangeError"
  ELSE "none"

\* every byte accepted: the character is the byte modulo the alphabet's length
sampleMaxNoRejection(alphabet) == 256

sampleMax(alphabet) == (256 \div Len(alphabet)) * Len(alphabet)

\* the for loop running one attempt too many
retryCeilingOffByOne == 1000 + 1

\* the number of attempts of the for loop
retryCeiling == 1000

\* the inner while loop of one attempt, from the state (password, counter,
\* pool, poolIndex) to the candidate and the counter it ends with
RECURSIVE sampleLoop(_, _, _, _, _, _, _)
sampleLoop(s, alphabet, length, password, counter, pool, poolIndex) ==
  IF Len(password) < length
  THEN IF poolIndex >= Len(pool)
       THEN sampleLoop(s, alphabet, length, password, counter + 1,
                       sha256Block(s, setUint32(counter)), 0)
       ELSE LET byte == pool[poolIndex + 1]
            IN IF byte >= sampleMax(alphabet)
               THEN sampleLoop(s, alphabet, length, password, counter, pool,
                               poolIndex + 1)
               ELSE sampleLoop(s, alphabet, length,
                               Append(password, alphabet[(byte % Len(alphabet)) + 1]),
                               counter, pool, poolIndex + 1)
  ELSE [password |-> password, counter |-> counter]

\* every attempt reading the stream from its first digest
candidateFromZero(s, alphabet, length, a) ==
  sampleLoop(s, alphabet, length, <<>>, 0, <<>>, 0)

\* the candidate of one attempt: counter = attempt, empty pool
candidate(s, alphabet, length, a) == sampleLoop(s, alphabet, length, <<>>, a, <<>>, 0)

----------------------------------------------------------------------------
(* The arguments the calls are given *)

One == Double(0, 1023, 0, 0, 0)
Two == Double(0, 1024, 0, 0, 0)
NaN == Double(0, 2047, 524288, 0, 0)

MatrixA == Arr(<< Arr(<< One, Two >>) >>)
MatrixB == Arr(<< Arr(<< One >>), Arr(<< Two >>) >>)
MatrixNaN == Arr(<< Arr(<< One, NaN >>) >>)
MatrixBadRow == Arr(<< Arr(<< One >>), NotAnArray >>)

Matrices == { MatrixA, MatrixB, Arr(<<>>), MatrixNaN, MatrixBadRow, NotAnArray }

\* the matrices the lists of the shared operations are made of
GroupMatrices == { MatrixA, MatrixB, MatrixNaN }
MatrixLists == UNION { [1..n -> GroupMatrices] : n \in 0..MaxGroup }

NoOptions == [salt |-> Absent, info |-> Absent, length |-> Undefined, alphabet |-> Absent]

Salts == { Absent, Str(<< 97, 98 >>), Bytes(<< 97 >>) }
Infos == { Absent, Str(<< 98 >>) }
DeriveOptions == { [NoOptions EXCEPT !.salt = sl, !.info = nf] : sl \in Salts, nf \in Infos }

\* "m", "é", and the two bytes of the UTF-8 of "é"
Messages == { Str(<< 109 >>), Str(<< 233 >>), Bytes(<< 195, 169 >>) }

Lengths == { Undefined, Integer(0), Integer(7), Integer(8), Integer(17), Half(8) }
Alphabets ==
  { Absent,
    Str(<< 97, 97, 65, 49, 33 >>),         \* "aaA1!"
    Str(<< 97 >>),                         \* "a"
    Str(<< 97, 98, 99, 49, 50, 51 >>),     \* "abc123"
    Str(<< 97, 65, 49 >>),                 \* "aA1"
    Str([i \in 1..257 |-> IF i <= 86 THEN DEFAULT_ALPHABET[i] ELSE 200 + i]) }
PasswordContexts ==
  { NoOptions, [NoOptions EXCEPT !.salt = Str(<< 97, 98 >>), !.info = Str(<< 98 >>)] }
PasswordOptions ==
  { [o EXCEPT !.length = l, !.alphabet = a] :
      o \in PasswordContexts, l \in Lengths, a \in Alphabets }

ExpandLengths ==
  { Integer(n) : n \in (0 - 1)..MaxExpand } \cup { Half(1), Undefined }

NoArgs ==
  [matrix |-> NotAnArray, matrices |-> <<>>, message |-> Absent,
   options |-> NoOptions, length |-> Undefined]

Hashed(purpose, d) == [purpose |-> purpose, input |-> d.input]

----------------------------------------------------------------------------
(* The calls *)

Init ==
  /\ sha \in ShaFamily
  /\ pc = "idle"
  /\ op = "none"
  /\ args = NoArgs
  /\ seed = NoSeed
  /\ attempt = 0
  /\ index = 0
  /\ out = <<>>
  /\ result = <<>>
  /\ error = "none"
  /\ hashLog = <<>>
  /\ blocks = 0
  /\ keyOps = 0
  /\ encodes = 0
  /\ signedMessage = Absent

\* a call that throws `err` having computed nothing
Throw(name, a, err) ==
  /\ pc' = "failed"
  /\ op' = name
  /\ args' = a
  /\ error' = err
  /\ UNCHANGED << sha, seed, attempt, index, out, result, hashLog, blocks,
                  keyOps, encodes, signedMessage >>

createPassword(matrix, options) ==
  LET a == [NoArgs EXCEPT !.matrix = matrix, !.options = options]
      d == deriveSeed(matrix, "password", options)
  IN /\ pc = "idle"
     /\ IF passwordPolicy(options) # "none"
        THEN Throw("createPassword", a, passwordPolicy(options))
        ELSE IF d.err # "none"
        THEN Throw("createPassword", a, d.err)
        ELSE /\ pc' = "password"
             /\ op' = "createPassword"
             /\ args' = a
             /\ seed' = d.seed
             /\ attempt' = 0
             /\ hashLog' = << Hashed("password", d) >>
             /\ encodes' = 1
             /\ UNCHANGED << sha, index, out, result, error, blocks, keyOps,
                             signedMessage >>

\* one turn of the for loop: build the candidate, return it if it is valid
passwordAttempt ==
  LET c == candidate(seed, alphabetOf(args.options), lengthOf(args.options).n, attempt)
  IN /\ pc = "password"
     /\ attempt < retryCeiling
     /\ blocks' = blocks + (c.counter - attempt)
     /\ IF isValidPassword(c.password)
        THEN /\ pc' = "returned"
             /\ result' = c.password
             /\ UNCHANGED attempt
        ELSE /\ attempt' = attempt + 1
             /\ UNCHANGED << pc, result >>
     /\ UNCHANGED << sha, op, args, seed, index, out, error, hashLog, keyOps,
                     encodes, signedMessage >>

\* the throw after the for loop
passwordExhausted ==
  /\ pc = "password"
  /\ ~(attempt < retryCeiling)
  /\ pc' = "failed"
  /\ error' = "Error"
  /\ UNCHANGED << sha, op, args, seed, attempt, index, out, result, hashLog,
                  blocks, keyOps, encodes, signedMessage >>

hashMatrix(matrix, options) ==
  LET a == [NoArgs EXCEPT !.matrix = matrix, !.options = options]
      d == deriveSeed(matrix, "hash", options)
  IN /\ pc = "idle"
     /\ IF d.err # "none"
        THEN Throw("hashMatrix", a, d.err)
        ELSE /\ pc' = "returned"
             /\ op' = "hashMatrix"
             /\ args' = a
             /\ result' = d.seed
             /\ hashLog' = << Hashed("hash", d) >>
             /\ encodes' = 1
             /\ UNCHANGED << sha, seed, attempt, index, out, error, blocks,
                             keyOps, signedMessage >>

createPasskey(matrix, options) ==
  LET a == [NoArgs EXCEPT !.matrix = matrix, !.options = options]
      d == deriveSeed(matrix, "passkey", options)
  IN /\ pc = "idle"
     /\ IF d.err # "none"
        THEN Throw("createPasskey", a, d.err)
        ELSE /\ pc' = "returned"
             /\ op' = "createPasskey"
             /\ args' = a
             /\ result' = [privateKey |-> d.seed, publicKey |-> getPublicKey(d.seed)]
             /\ hashLog' = << Hashed("passkey", d) >>
             /\ encodes' = 1
             /\ keyOps' = 1
             /\ UNCHANGED << sha, seed, attempt, index, out, error, blocks,
                             signedMessage >>

\* a MessageSignature that carries the public key of the passkey purpose
\* instead of the public key of the key that signed
signWithPasskeyPublicKey(privateKey, messageBytes) ==
  [signature |-> sign(messageBytes, privateKey),
   publicKey |-> getPublicKey(sha256(DOMAIN_TAG \o PURPOSE_PASSKEY))]

\* the MessageSignature made with a private key
signWith(privateKey, messageBytes) ==
  [signature |-> sign(messageBytes, privateKey),
   publicKey |-> getPublicKey(privateKey)]

signMessage(matrix, message, options) ==
  LET a == [NoArgs EXCEPT !.matrix = matrix, !.message = message, !.options = options]
      d == deriveSeed(matrix, "signature", options)
  IN /\ pc = "idle"
     /\ IF d.err # "none"
        THEN Throw("signMessage", a, d.err)
        ELSE /\ pc' = "returned"
             /\ op' = "signMessage"
             /\ args' = a
             /\ result' = signWith(d.seed, toMessageBytes(message))
             /\ hashLog' = << Hashed("signature", d) >>
             /\ encodes' = 1
             /\ keyOps' = 2
             /\ signedMessage' = message
             /\ UNCHANGED << sha, seed, attempt, index, out, error, blocks >>

expandMatrixBytes(matrix, length, options) ==
  LET a == [NoArgs EXCEPT !.matrix = matrix, !.length = length, !.options = options]
      d == deriveSeed(matrix, "hash", options)
      e == expandBytes(d.seed, length.n)
  IN /\ pc = "idle"
     /\ IF ~isInteger(length) \/ length.n <= 0
        THEN Throw("expandMatrixBytes", a, "RangeError")
        ELSE IF d.err # "none"
        THEN Throw("expandMatrixBytes", a, d.err)
        ELSE /\ pc' = "returned"
             /\ op' = "expandMatrixBytes"
             /\ args' = a
             /\ seed' = d.seed
             /\ result' = e.bytes
             /\ hashLog' = << Hashed("hash", d) >>
             /\ encodes' = 1
             /\ blocks' = e.counter
             /\ UNCHANGED << sha, attempt, index, out, error, keyOps,
                             signedMessage >>

\* the Passkey of element i (from 0) of a list of matrices
sharedPasskeyAt(matrices, i, options) ==
  LET d == deriveSharedSeed(matrices[i + 1], i, Len(matrices),
                            "shared-passkey", options)
  IN [err |-> d.err, input |-> d.input,
      value |-> [privateKey |-> d.seed, publicKey |-> getPublicKey(d.seed)]]

\* the MessageSignature of element i (from 0) of a list of matrices
sharedSignatureAt(matrices, i, messageBytes, options) ==
  LET d == deriveSharedSeed(matrices[i + 1], i, Len(matrices),
                            "shared-signature", options)
  IN [err |-> d.err, input |-> d.input, value |-> signWith(d.seed, messageBytes)]

createSharedPasskey(matrices, options) ==
  LET a == [NoArgs EXCEPT !.matrices = matrices, !.options = options]
  IN /\ pc = "idle"
     /\ IF assertSharedMatrices(matrices) # "none"
        THEN Throw("createSharedPasskey", a, assertSharedMatrices(matrices))
        ELSE /\ pc' = "sharedPasskey"
             /\ op' = "createSharedPasskey"
             /\ args' = a
             /\ index' = 0
             /\ out' = <<>>
             /\ UNCHANGED << sha, seed, attempt, result, error, hashLog, blocks,
                             keyOps, encodes, signedMessage >>

\* the callback of matrices.map, for the element at `index`
sharedPasskeyStep ==
  LET e == sharedPasskeyAt(args.matrices, index, args.options)
  IN /\ pc = "sharedPasskey"
     /\ IF e.err # "none"
        THEN /\ pc' = "failed"
             /\ error' = e.err
             /\ UNCHANGED << index, out, result, hashLog, keyOps, encodes >>
        ELSE /\ out' = Append(out, e.value)
             /\ index' = index + 1
             /\ hashLog' = Append(hashLog, [purpose |-> "shared-passkey",
                                            input |-> e.input])
             /\ encodes' = encodes + 1
             /\ keyOps' = keyOps + 1
             /\ IF index + 1 = Len(args.matrices)
                THEN pc' = "returned" /\ result' = Append(out, e.value)
                ELSE UNCHANGED << pc, result >>
             /\ UNCHANGED error
     /\ UNCHANGED << sha, op, args, seed, attempt, blocks, signedMessage >>

createSharedSignature(matrices, message, options) ==
  LET a == [NoArgs EXCEPT !.matrices = matrices, !.message = message,
                          !.options = options]
  IN /\ pc = "idle"
     /\ IF assertSharedMatrices(matrices) # "none"
        THEN Throw("createSharedSignature", a, assertSharedMatrices(matrices))
        ELSE /\ pc' = "sharedSignature"
             /\ op' = "createSharedSignature"
             /\ args' = a
             /\ index' = 0
             /\ out' = <<>>
             /\ signedMessage' = message
             /\ UNCHANGED << sha, seed, attempt, result, error, hashLog, blocks,
                             keyOps, encodes >>

sharedSignatureStep ==
  LET e == sharedSignatureAt(args.matrices, index, toMessageBytes(args.message),
                             args.options)
  IN /\ pc = "sharedSignature"
     /\ IF e.err # "none"
        THEN /\ pc' = "failed"
             /\ error' = e.err
             /\ UNCHANGED << index, out, result, hashLog, keyOps, encodes >>
        ELSE /\ out' = Append(out, e.value)
             /\ index' = index + 1
             /\ hashLog' = Append(hashLog, [purpose |-> "shared-signature",
                                            input |-> e.input])
             /\ encodes' = encodes + 1
             /\ keyOps' = keyOps + 2
             /\ IF index + 1 = Len(args.matrices)
                THEN pc' = "returned" /\ result' = Append(out, e.value)
                ELSE UNCHANGED << pc, result >>
             /\ UNCHANGED error
     /\ UNCHANGED << sha, op, args, seed, attempt, blocks, signedMessage >>

\* verifyMessageSignature(message, s.signature, s.publicKey), applied to the
\* MessageSignature s that signMessage has just returned
verifyMessageSignature(message) ==
  /\ pc = "returned"
  /\ op = "signMessage"
  /\ op' = "verifyMessageSignature"
  /\ args' = [NoArgs EXCEPT !.message = message]
  /\ out' = result
  /\ result' = verify(result.signature, toMessageBytes(message), result.publicKey)
  /\ hashLog' = <<>>
  /\ encodes' = 0
  /\ keyOps' = 1
  /\ UNCHANGED << sha, pc, seed, attempt, index, error, blocks, signedMessage >>

\* verifySharedSignatures(message, signatures), applied to the signatures
\* that createSharedSignature has just returned
verifySharedSignatures(message) ==
  /\ pc = "returned"
  /\ op = "createSharedSignature"
  /\ op' = "verifySharedSignatures"
  /\ args' = [NoArgs EXCEPT !.message = message]
  /\ out' = result
  /\ result' = \A k \in 1..Len(result) :
                  verify(result[k].signature, toMessageBytes(message),
                         result[k].publicKey)
  /\ hashLog' = <<>>
  /\ encodes' = 0
  /\ keyOps' = Len(result)
  /\ UNCHANGED << sha, pc, seed, attempt, index, error, blocks, signedMessage >>

\* the call is over; nothing of it is kept
Return ==
  /\ pc \in { "returned", "failed" }
  /\ pc' = "idle"
  /\ op' = "none"
  /\ args' = NoArgs
  /\ seed' = NoSeed
  /\ attempt' = 0
  /\ index' = 0
  /\ out' = <<>>
  /\ result' = <<>>
  /\ error' = "none"
  /\ hashLog' = <<>>
  /\ blocks' = 0
  /\ keyOps' = 0
  /\ encodes' = 0
  /\ signedMessage' = Absent
  /\ UNCHANGED sha

Next ==
  \/ \E m \in Matrices, o \in PasswordOptions : createPassword(m, o)
  \/ passwordAttempt
  \/ passwordExhausted
  \/ \E m \in Matrices, o \in DeriveOptions : hashMatrix(m, o)
  \/ \E m \in Matrices, o \in DeriveOptions : createPasskey(m, o)
  \/ \E m \in Matrices, msg \in Messages, o \in DeriveOptions : signMessage(m, msg, o)
  \/ \E m \in Matrices, l \in ExpandLengths, o \in DeriveOptions :
       expandMatrixBytes(m, l, o)
  \/ \E ms \in MatrixLists, o \in DeriveOptions : createSharedPasskey(ms, o)
  \/ sharedPasskeyStep
  \/ \E ms \in MatrixLists, msg \in Messages, o \in DeriveOptions :
       createSharedSignature(ms, msg, o)
  \/ sharedSignatureStep
  \/ \E msg \in Messages : verifyMessageSignature(msg)
  \/ \E msg \in Messages : verifySharedSignatures(msg)
  \/ Return

Spec == Init /\ [][Next]_vars

----------------------------------------------------------------------------
(* Properties of createPassword *)

\* the character classes, as the claims state them
HasLower(str) == \E k \in 1..Len(str) : str[k] \in 97..122
HasUpper(str) == \E k \in 1..Len(str) : str[k] \in 65..90
HasDigit(str) == \E k \in 1..Len(str) : str[k] \in 48..57
HasSymbol(str) == \E k \in 1..Len(str) : str[k] \notin (97..122) \cup (65..90) \cup (48..57)
HasAllClasses(str) == HasLower(str) /\ HasUpper(str) /\ HasDigit(str) /\ HasSymbol(str)

\* the length and the alphabet a createPassword call uses
GivenLength == IF args.options.length = Undefined THEN Integer(16) ELSE args.options.length
GivenAlphabet ==
  IF args.options.alphabet = Absent THEN DEFAULT_ALPHABET ELSE args.options.alphabet.v
LengthIsValid == GivenLength.kind = "integer" /\ GivenLength.n \in 8..16

PasswordReturned == op = "createPassword" /\ pc = "returned"
PasswordRejected == op = "createPassword" /\ pc = "failed" /\ error = "RangeError"
NothingDerived == hashLog = <<>> /\ encodes = 0 /\ blocks = 0 /\ keyOps = 0

\* C1: a password that createPassword returns has exactly `length`
\* characters, each of them a character of the alphabet, and holds a
\* lowercase letter, an uppercase letter, a digit and a symbol.
C1_PasswordPolicy ==
  PasswordReturned =>
    /\ Len(result) = GivenLength.n
    /\ \A k \in 1..Len(result) :
         \E j \in 1..Len(GivenAlphabet) : GivenAlphabet[j] = result[k]
    /\ HasAllClasses(result)

\* a password of 8 characters returned for a custom alphabet
C1_Witness ==
  /\ PasswordReturned
  /\ args.options.length = Integer(8)
  /\ args.options.alphabet # Absent

DistinctChars(str) == Cardinality({ str[k] : k \in 1..Len(str) })

CandidateOf(b) == candidate(seed, GivenAlphabet, GivenLength.n, b).password

\* C8: the attempts are made in the order 0, 1, ..., 999; the password
\* returned is the candidate of the lowest attempt that holds all four
\* classes; no candidate is built for an attempt of 1000 or more; and the
\* call fails with the exhaustion error exactly when none of the 1000
\* candidates holds all four classes.
C8_RetryLoop ==
  op = "createPassword" =>
    /\ attempt <= 1000
    /\ pc = "password" => blocks > 0 \/ attempt = 0
    /\ pc = "returned" =>
         /\ attempt < 1000
         /\ result = CandidateOf(attempt)
         /\ HasAllClasses(result)
         /\ \A b \in 0..(attempt - 1) : ~HasAllClasses(CandidateOf(b))
    /\ (pc = "failed" /\ error = "Error") =>
         /\ attempt = 1000
         /\ \A b \in 0..999 : ~HasAllClasses(CandidateOf(b))
    /\ (pc = "failed" /\ error # "Error") => attempt = 0 /\ blocks = 0

\* a password returned after more than 900 candidates were refused
C8_Witness == PasswordReturned /\ attempt > 900

----------------------------------------------------------------------------
(* Properties of expandMatrixBytes *)

\* byte i (from 1) of H(seed || BE32(0)) || H(seed || BE32(1)) || ...
StreamByte(s, i) ==
  sha256Block(s, << 0, 0, 0, (i - 1) \div BlockLen >>)[((i - 1) % BlockLen) + 1]

\* C9: expandMatrixBytes fails with a range error when `length` is not a
\* positive integer; for a well-formed matrix and a positive integer it
\* returns exactly `length` bytes, the first `length` bytes of
\* H(seed || BE32(0)) || H(seed || BE32(1)) || ... with seed the digest of
\* the `hash` purpose, so that the output for n is a prefix of the output
\* for every m >= n.
C9_ExpandIsStreamPrefix ==
  op = "expandMatrixBytes" =>
    LET n == args.length
        positive == n.kind = "integer" /\ n.n >= 1
    IN /\ ~positive => pc = "failed" /\ error = "RangeError" /\ NothingDerived
       /\ (positive /\ assertMatrix(args.matrix) = "none") => pc = "returned"
       /\ pc = "returned" =>
            /\ positive
            /\ Len(hashLog) = 1
            /\ hashLog[1].purpose = "hash"
            /\ seed = sha256(hashLog[1].input)
            /\ Len(result) = n.n
            /\ \A i \in 1..n.n : result[i] = StreamByte(seed, i)
            /\ \A m \in n.n..(MaxExpand + 1) :
                 SubSeq(expandBytes(seed, m).bytes, 1, n.n) = result

\* the longest expansion asked for: more than two digests, the last one cut
C9_Witness ==
  /\ op = "expandMatrixBytes"
  /\ pc = "returned"
  /\ Len(result) = MaxExpand
  /\ Len(result) > 2 * BlockLen
  /\ Len(result) % BlockLen # 0

----------------------------------------------------------------------------
(* Properties of signing *)

\* C10: the signature and public key that signMessage returns verify for
\* the message that was signed, the signatures that createSharedSignature
\* returns verify for the message that was signed, and verification for a
\* message of different bytes returns false (it does not throw).
C10_SignVerifyRoundTrip ==
  (op \in { "verifyMessageSignature", "verifySharedSignatures" }) =>
    /\ pc = "returned"
    /\ error = "none"
    /\ args.message = signedMessage => result = TRUE
    /\ toMessageBytes(args.message) # toMessageBytes(signedMessage) => result = FALSE

\* the signatures of a list of matrices verified for the message signed
C10_Witness ==
  /\ op = "verifySharedSignatures"
  /\ args.message = signedMessage
  /\ signedMessage = Str(<< 233 >>)
  /\ result = TRUE

----------------------------------------------------------------------------
(* Properties of the seeds *)

SharedOps == { "createSharedPasskey", "createSharedSignature" }
SharedPurposes == { "shared-passkey", "shared-signature" }

\* C2: the public key in signatures[i] of createSharedSignature(matrices,
\* message) is the public key of createSharedPasskey(matrices)[i], for the
\* same salt and info.
C2_SharedSignatureUsesSharedPasskey ==
  (op = "createSharedSignature" /\ pc = "returned") =>
    \A i \in 1..Len(result) :
      result[i].publicKey
        = sharedPasskeyAt(args.matrices, i - 1, args.options).value.publicKey

\* the derivation a call has just made: the last entry of hashLog, and the
\* matrix it was made from
JustDerived ==
  /\ hashLog # <<>>
  /\ \/ pc \in { "returned", "sharedPasskey", "sharedSignature" }
     \/ pc = "password" /\ attempt = 0
  /\ op \notin { "verifyMessageSignature", "verifySharedSignatures" }
LastEntry == hashLog[Len(hashLog)]
LastMatrix == IF op \in SharedOps THEN args.matrices[Len(hashLog)] ELSE args.matrix

\* salts and infos another call may choose: those of the calls, the rest
\* of a tag that shares its beginning with another ("word", "key"), and
\* bytes that read as the index and total of a shared seed
OtherSalts ==
  Salts \cup { Str(<< 119, 111, 114, 100 >>), Bytes(<< 0, 0, 0, 0, 0, 0, 0, 2 >>) }
OtherInfos == Infos \cup { Str(<< 107, 101, 121 >>) }
OtherOptions ==
  { [NoOptions EXCEPT !.salt = sl, !.info = nf] : sl \in OtherSalts, nf \in OtherInfos }

\* what is fed to sha256 for purpose q, matrix m and options o (for a
\* shared purpose: at every index of every group size)
InputsFor(q, m, o) ==
  IF q \in SharedPurposes
  THEN UNION { { deriveSharedSeed(m, j, n, q, o).input : j \in 0..(n - 1) } :
                 n \in 2..(MaxGroup + 1) }
  ELSE { deriveSeed(m, q, o).input }

\* the seed a call of one of the four single-matrix derivations holds
OwnSeed ==
  CASE op = "createPassword" -> seed
    [] op = "createPasskey" -> result.privateKey
    [] op = "signMessage" -> result.signature.signer
    [] op = "hashMatrix" -> result

\* C3: what is fed to sha256 for one purpose differs from what is fed to
\* it for any other purpose, for the same matrix and whatever salt and info
\* the other derivation is given; so the seeds of hashMatrix, createPasskey,
\* signMessage and createPassword for one matrix are pairwise distinct.
C3_DomainSeparation ==
  JustDerived =>
    /\ \A q \in Purposes \ { LastEntry.purpose } : \A o \in OtherOptions :
         LastEntry.input \notin InputsFor(q, LastMatrix, o)
    /\ op \in { "createPassword", "createPasskey", "signMessage", "hashMatrix" } =>
         /\ OwnSeed = sha256(LastEntry.input)
         /\ \A q \in { "password", "passkey", "signature", "hash" } \ { LastEntry.purpose } :
              deriveSeed(args.matrix, q, args.options).seed # OwnSeed

\* a seed derived for a shared signature, the purpose whose tag ends as the
\* tag of the signature purpose does
C3_Witness ==
  /\ JustDerived
  /\ LastEntry.purpose = "shared-signature"
  /\ args.options.salt = Absent

\* lists of well-formed matrices that a shared operation accepts, up to one
\* matrix longer than the lists the calls are given
GoodLists ==
  { ms \in UNION { [1..n -> GroupMatrices] : n \in 2..(MaxGroup + 1) } :
      \A k \in 1..Len(ms) : assertMatrix(ms[k]) = "none" }

\* C4: the seed of element i of a group of n matrices is bound to (i, n):
\* for the same matrix, salt and info, what is hashed at (i, n) differs from
\* what is hashed at every other (j, m); and the first key pair of
\* createSharedPasskey differs between two lists that differ in their first
\* matrix or in their length ([A,B] and [B,A]; [A,B] and [A,B,C]).
C4_SharedSeedBoundToIndexAndTotal ==
  (op \in SharedOps /\ JustDerived) =>
    /\ LastEntry.input
         = deriveSharedSeed(LastMatrix, Len(hashLog) - 1, Len(args.matrices),
                            LastEntry.purpose, args.options).input
    /\ \A m \in 2..(MaxGroup + 2) : \A j \in 0..(m - 1) :
         << j, m >> # << Len(hashLog) - 1, Len(args.matrices) >> =>
           deriveSharedSeed(LastMatrix, j, m, LastEntry.purpose, args.options).input
             # LastEntry.input
    /\ (op = "createSharedPasskey" /\ pc = "returned") =>
         \A ms \in GoodLists :
           (ms[1] # args.matrices[1] \/ Len(ms) # Len(args.matrices)) =>
             sharedPasskeyAt(ms, 0, args.options).value # result[1]

\* the key pairs of the list [A, B]
C4_Witness ==
  /\ op = "createSharedPasskey"
  /\ pc = "returned"
  /\ args.matrices = << MatrixA, MatrixB >>

\* the matrices a call was given, and whether its other arguments are valid
SuppliedMatrices == IF op \in SharedOps THEN args.matrices ELSE << args.matrix >>
SomeMatrixMalformed ==
  \E k \in 1..Len(SuppliedMatrices) : assertMatrix(SuppliedMatrices[k]) # "none"
OtherArgumentsValid ==
  CASE op = "createPassword" ->
         LengthIsValid /\ Len(GivenAlphabet) \in 2..256 /\ HasAllClasses(GivenAlphabet)
    [] op = "expandMatrixBytes" -> args.length.kind = "integer" /\ args.length.n >= 1
    [] op \in SharedOps -> Len(args.matrices) >= 2
    [] OTHER -> TRUE

\* C5: an operation given a malformed matrix (and otherwise valid
\* arguments) fails with the validation error, and at the moment it fails
\* no hash, no key and no signature has been computed; for the shared
\* operations also when the malformed matrix is not the first of the list.
C5_ValidationBeforeAnyHash ==
  ( /\ op \in { "createPassword", "createPasskey", "signMessage", "hashMatrix",
                "expandMatrixBytes" } \cup SharedOps
    /\ SomeMatrixMalformed
    /\ OtherArgumentsValid ) =>
      /\ pc # "returned"
      /\ pc = "failed" =>
           error = "TypeError" /\ hashLog = <<>> /\ keyOps = 0 /\ blocks = 0

----------------------------------------------------------------------------
(* Context sensitivity *)

\* salts and infos to compare a derivation with: empty values, values one
\* of which begins as another does, and a text and the bytes of its UTF-8
ContextSalts ==
  Salts \cup { Str(<<>>), Bytes(<<>>), Str(<< 97 >>), Bytes(<< 97, 98 >>),
               Str(<< 98 >>), Str(<< 233 >>), Bytes(<< 195, 169 >>) }
ContextInfos == Infos \cup { Str(<<>>), Str(<< 97 >>), Str(<< 97, 98 >>), Str(<< 233 >>) }

\* what the derivation just made would have fed to sha256 had the call been
\* given options o (same matrix and purpose, same index and total)
InputWith(o) ==
  IF op \in SharedOps
  THEN deriveSharedSeed(LastMatrix, Len(hashLog) - 1, Len(args.matrices),
                        LastEntry.purpose, o).input
  ELSE deriveSeed(LastMatrix, LastEntry.purpose, o).input

\* C11: for a fixed matrix, purpose and info, another salt (a salt is the
\* bytes it stands for: a text salt its UTF-8) changes what is fed to
\* sha256; for a fixed matrix, purpose and salt, so does another info; and
\* an absent salt or info is hashed as the empty text and as the empty
\* byte array are.
C11_ContextSensitivity ==
  JustDerived =>
    /\ LastEntry.input = InputWith(args.options)
    /\ \A sl \in ContextSalts :
         LET o == [args.options EXCEPT !.salt = sl]
         IN IF toBytes(sl) = toBytes(args.options.salt)
            THEN InputWith(o) = LastEntry.input
            ELSE InputWith(o) # LastEntry.input
    /\ \A nf \in ContextInfos :
         LET o == [args.options EXCEPT !.info = nf]
         IN IF toBytes(nf) = toBytes(args.options.info)
            THEN InputWith(o) = LastEntry.input
            ELSE InputWith(o) # LastEntry.input

\* a derivation with the salt "ab" and the info "b", next to which stand
\* the salt "a" and the info "ab"
C11_Witness ==
  /\ JustDerived
  /\ args.options.salt = Str(<< 97, 98 >>)
  /\ args.options.info = Str(<< 98 >>)
  /\ pc = "returned"

----------------------------------------------------------------------------
(* The canonical encoding on its own *)

Zero == Double(0, 0, 0, 0, 0)
NegZero == Double(1, 0, 0, 0, 0)
\* the subnormal whose eight bytes read 00 00 00 01 00 00 00 00, as the
\* count of a row of one element followed by the count of an empty row
Tiny == Double(0, 0, 1, 0, 0)
Infinity == Double(0, 2047, 0, 0, 0)

Elements == { NegZero, Tiny }
EncodingRows == UNION { [1..k -> Elements] : k \in 0..MaxRowLen }
EncodingMatrices ==
  { Arr(rows) : rows \in UNION { [1..n -> { Arr(r) : r \in EncodingRows }] :
                                   n \in 0..MaxRows } }
    \cup { MatrixNaN, MatrixBadRow, NotAnArray, Arr(<< Arr(<< Infinity >>) >>),
           Arr(<< Arr(<< NotANumber >>) >>) }

\* encodeFloatMatrix applied to one matrix
encodeMatrix(matrix) ==
  LET a == [NoArgs EXCEPT !.matrix = matrix]
      e == encodeFloatMatrix(matrix)
  IN /\ pc = "idle"
     /\ IF e.err # "none"
        THEN Throw("encodeFloatMatrix", a, e.err)
        ELSE /\ pc' = "returned"
             /\ op' = "encodeFloatMatrix"
             /\ args' = a
             /\ result' = e.bytes
             /\ encodes' = 1
             /\ UNCHANGED << sha, seed, attempt, index, out, error, hashLog,
                             blocks, keyOps, signedMessage >>

EncodingNext ==
  \/ pc = "idle" /\ \E m \in EncodingMatrices : encodeMatrix(m)
  \/ Return

EncodingSpec == Init /\ [][EncodingNext]_vars

\* the rows of a matrix as sequences of numbers, and back
PlainRows(matrix) == [r \in 1..Len(matrix.items) |-> matrix.items[r].items]
MatrixOf(rows) == Arr([r \in 1..Len(rows) |-> Arr(rows[r])])

\* reading the layout back: a double from its 8 bytes, n doubles, n rows
\* (each a 4-byte count and its doubles), a matrix (a 4-byte count and its
\* rows); `rest` is what follows
getFloat64(b) ==
  Double(b[1] \div 128, ((b[1] % 128) * 16) + (b[2] \div 16),
         ((b[2] % 16) * 65536) + (b[3] * 256) + b[4],
         (b[5] * 256) + b[6], (b[7] * 256) + b[8])
RECURSIVE decodeValues(_, _)
decodeValues(b, n) ==
  IF n = 0 THEN [values |-> <<>>, rest |-> b]
  ELSE LET t == decodeValues(SubSeq(b, 9, Len(b)), n - 1)
       IN [values |-> << getFloat64(SubSeq(b, 1, 8)) >> \o t.values, rest |-> t.rest]
RECURSIVE decodeRows(_, _)
decodeRows(b, n) ==
  IF n = 0 THEN [rows |-> <<>>, rest |-> b]
  ELSE LET v == decodeValues(SubSeq(b, 5, Len(b)), getUint32(SubSeq(b, 1, 4)))
           t == decodeRows(v.rest, n - 1)
       IN [rows |-> << v.values >> \o t.rows, rest |-> t.rest]
decodeMatrix(b) == decodeRows(SubSeq(b, 5, Len(b)), getUint32(SubSeq(b, 1, 4)))

RECURSIVE SumOfRowSizes(_)
SumOfRowSizes(rows) ==
  IF rows = <<>> THEN 0 ELSE 4 + (8 * Len(Head(rows))) + SumOfRowSizes(Tail(rows))

RECURSIVE Flattened(_)
Flattened(rows) == IF rows = <<>> THEN <<>> ELSE Head(rows) \o Flattened(Tail(rows))

\* the matrices next to the one with rows R: one element changed, two rows
\* exchanged, a row removed or an empty row added, a row made longer or
\* shorter, and the same numbers cut into rows otherwise (one row, a row
\* boundary moved, a row cut in two)
OtherElements == Elements \cup { Zero, One, Two }
Variants(R) ==
  LET n == Len(R)
      Without(q, k) == [i \in 1..(Len(q) - 1) |-> IF i < k THEN q[i] ELSE q[i + 1]]
      Insert(q, k, x) ==
        [i \in 1..(Len(q) + 1) |-> IF i < k THEN q[i] ELSE IF i = k THEN x ELSE q[i - 1]]
  IN UNION { { [R EXCEPT ![r][k] = e] : k \in 1..Len(R[r]), e \in OtherElements } :
               r \in 1..n }
     \cup { [R EXCEPT ![r] = R[t], ![t] = R[r]] : r \in 1..n, t \in 1..n }
     \cup { Without(R, r) : r \in 1..n }
     \cup { Insert(R, r, <<>>) : r \in 1..(n + 1) }
     \cup { [R EXCEPT ![r] = Append(R[r], e)] : r \in 1..n, e \in OtherElements }
     \cup { [R EXCEPT ![r] = SubSeq(R[r], 1, Len(R[r]) - 1)] :
              r \in { t \in 1..n : R[t] # <<>> } }
     \cup { << Flattened(R) >> }
     \cup { [R EXCEPT ![r] = SubSeq(R[r], 1, Len(R[r]) - 1),
                      ![r + 1] = << R[r][Len(R[r])] >> \o R[r + 1]] :
              r \in { t \in 1..(n - 1) : R[t] # <<>> } }
     \cup { [R EXCEPT ![r] = Append(R[r], R[r + 1][1]), ![r + 1] = Tail(R[r + 1])] :
              r \in { t \in 1..(n - 1) : R[t + 1] # <<>> } }
     \cup UNION { { Insert([R EXCEPT ![r] = SubSeq(R[r], k + 1, Len(R[r]))], r,
                           SubSeq(R[r], 1, k)) : k \in 0..Len(R[r]) } : r \in 1..n }

Encoded == op = "encodeFloatMatrix" /\ pc = "returned"

\* C12: the canonical bytes are a 4-byte big-endian row count, then for each
\* row a 4-byte big-endian element count and each element as 8 bytes, of
\* total length 4 + the sum over the rows of (4 + 8 * row length): read
\* back by that layout they give the matrix again, nothing left over; a
\* matrix that differs in row count, in a row's length, in row order or in
\* an element (also -0 from 0), or that holds the same numbers cut into rows
\* otherwise, has other canonical bytes; and the empty matrix and empty
\* rows are encoded, not refused.
C12_CanonicalEncodingInjective ==
  /\ (op = "encodeFloatMatrix" /\ pc \in { "returned", "failed" }) =>
       (pc = "returned") = (assertMatrix(args.matrix) = "none")
  /\ Encoded =>
       LET R == PlainRows(args.matrix)
       IN /\ Len(result) = 4 + SumOfRowSizes(R)
          /\ decodeMatrix(result) = [rows |-> R, rest |-> <<>>]
          /\ args.matrix = Arr(<<>>) => result = << 0, 0, 0, 0 >>
          /\ args.matrix = Arr(<< Arr(<<>>) >>) => result = << 0, 0, 0, 1, 0, 0, 0, 0 >>
          /\ \A V \in Variants(R) :
               V # R => encodeFloatMatrix(MatrixOf(V)).bytes # result

\* the encoding of [[-0], [Tiny]], whose numbers are those of [[-0, Tiny]]
\* and of [[], [-0, Tiny]]
C12_Witness ==
  /\ Encoded
  /\ PlainRows(args.matrix) = << << NegZero >>, << Tiny >> >>

----------------------------------------------------------------------------
(* The sampling of one character on its own *)

\* an alphabet of n distinct characters: the default alphabet at its own
\* length, otherwise "aA1!" followed by characters outside ASCII
AlphabetOfSize(n) ==
  IF n = Len(DEFAULT_ALPHABET) THEN DEFAULT_ALPHABET
  ELSE [i \in 1..n |-> IF i <= 4 THEN << 97, 65, 49, 33 >>[i] ELSE 1000 + i]

\* the alphabets createPassword accepts, one of every length
SamplingAlphabets ==
  { a \in { AlphabetOfSize(n) : n \in 1..257 } :
      passwordPolicy([NoOptions EXCEPT !.alphabet = Str(a)]) = "none" }

\* the while loop of createPassword run for one character, in an attempt
\* whose pool holds the one byte `byte` yet to be read
sampleByte(alphabet, byte) ==
  LET c == sampleLoop(seed, alphabet, 1, <<>>, 0, << byte >>, 0)
  IN /\ pc = "idle"
     /\ pc' = "returned"
     /\ op' = "sampleByte"
     /\ args' = [NoArgs EXCEPT !.options.alphabet = Str(alphabet),
                               !.options.length = Integer(1)]
     /\ out' = << byte >>
     /\ result' = c.password
     /\ blocks' = c.counter
     /\ UNCHANGED << sha, seed, attempt, index, error, hashLog, keyOps, encodes,
                     signedMessage >>

SamplingInit == Init /\ sha.from = 0

SamplingNext ==
  \/ pc = "idle" /\ \E a \in SamplingAlphabets, b \in 0..255 : sampleByte(a, b)
  \/ Return

SamplingSpec == SamplingInit /\ [][SamplingNext]_vars

Sampled == op = "sampleByte" /\ pc = "returned"

\* the bytes in 0..255 that are lower than max and fall on position p of an
\* alphabet of n characters
AcceptedOn(p, n, max) == { c \in 0..255 : c < max /\ c % n = p }

\* C13: with max = floor(256 / n) * n for an alphabet of n characters, a
\* byte b is accepted if and only if b < max, and then gives the character
\* at position b mod n; a byte that is not accepted gives no character (the
\* next accepted byte of the stream gives it); every position 0..n-1 is the
\* image of exactly floor(256 / n) accepted bytes; and max > 128, for every
\* n in 2..256.
C13_RejectionSamplingUnbiased ==
  Sampled =>
    LET alphabet == args.options.alphabet.v
        n == Len(alphabet)
        b == out[1]
        max == (256 \div n) * n
    IN /\ (blocks = 0) <=> (b < max)
       /\ b < max => result = << alphabet[(b % n) + 1] >>
       /\ b >= max =>
            /\ result = candidate(seed, alphabet, 1, 0).password
            /\ blocks = candidate(seed, alphabet, 1, 0).counter
       /\ sampleMax(alphabet) = max
       /\ max > 128
       /\ b = 0 =>
            \A p \in 0..(n - 1) :
              Cardinality(AcceptedOn(p, n, sampleMax(alphabet))) = 256 \div n
       /\ (b = 0 /\ alphabet = DEFAULT_ALPHABET) =>
            \A k \in 2..256 :
              LET m == sampleMax(AlphabetOfSize(k))
              IN /\ m = (256 \div k) * k
                 /\ m > 128
                 /\ m <= 256
                 /\ \A p \in 0..(k - 1) :
                      Cardinality(AcceptedOn(p, k, m)) = 256 \div k

\* the last byte accepted with the default alphabet (172 = 2 * 86), which
\* gives the last character of the alphabet
C13_Witness ==
  /\ Sampled
  /\ args.options.alphabet.v = DEFAULT_ALPHABET
  /\ out = << 171 >>
  /\ blocks = 0
  /\ result = << DEFAULT_ALPHABET[86] >>

----------------------------------------------------------------------------
(* The byte stream of an attempt of createPassword *)

\* H(seed || BE32(a)) || H(seed || BE32(a + 1)) || ... , k digests of it
AttemptStream(a, k) ==
  [i \in 1..(k * BlockLen) |->
     sha256Block(seed, setUint32(a + ((i - 1) \div BlockLen)))[((i - 1) % BlockLen) + 1]]

\* the characters that a sequence of bytes gives: those of its bytes below
\* floor(256 / n) * n, in order
RECURSIVE Picked(_, _)
Picked(bytes, alphabet) ==
  IF bytes = <<>> THEN <<>>
  ELSE LET n == Len(alphabet)
       IN (IF Head(bytes) < (256 \div n) * n
           THEN << alphabet[(Head(bytes) % n) + 1] >> ELSE <<>>)
            \o Picked(Tail(bytes), alphabet)

\* the first n items of a sequence (all of it if it has fewer)
FirstOf(q, n) == [i \in 1..Min(n, Len(q)) |-> q[i]]

\* C14: the attempt index goes into the block counter and not into the
\* seed: the one seed of the call is the digest of the password purpose;
\* the candidate of attempt a is read off H(seed || BE32(a)),
\* H(seed || BE32(a + 1)), ... from the first byte of the first of them on
\* (nothing is left of the attempt before), as many digests as it takes;
\* the candidate of attempt a + 1 is read off the stream of attempt a
\* without its first digest; and attempt 0 reads the stream that
\* expandBytes gives for the seed.
C14_AttemptMixedIntoCounter ==
  (op = "createPassword" /\ pc \in { "password", "returned" } /\ attempt < 1000) =>
    LET alphabet == GivenAlphabet
        length == GivenLength.n
        c == candidate(seed, alphabet, length, attempt)
        k == c.counter - attempt
        next == candidate(seed, alphabet, length, attempt + 1)
        kk == next.counter - attempt
    IN /\ Len(hashLog) = 1
       /\ hashLog[1].purpose = "password"
       /\ seed = sha256(hashLog[1].input)
       /\ k >= 1
       /\ c.password = FirstOf(Picked(AttemptStream(attempt, k), alphabet), length)
       /\ Len(Picked(AttemptStream(attempt, k - 1), alphabet)) < length
       /\ pc = "returned" => result = c.password
       /\ kk >= 2
       /\ next.password
            = FirstOf(Picked(SubSeq(AttemptStream(attempt, kk), BlockLen + 1,
                                    kk * BlockLen), alphabet), length)
       /\ attempt = 0 =>
            AttemptStream(0, k) = expandBytes(seed, k * BlockLen).bytes

\* a password returned at a later attempt than the first, some bytes of
\* its stream having been refused
C14_Witness ==
  /\ PasswordReturned
  /\ attempt >= 1
  /\ GivenAlphabet = DEFAULT_ALPHABET
  /\ LET k == candidate(seed, DEFAULT_ALPHABET, GivenLength.n, attempt).counter - attempt
     IN \E i \in 1..(k * BlockLen) :
          AttemptStream(attempt, k)[i] >= sampleMax(DEFAULT_ALPHABET)

----------------------------------------------------------------------------
(* Framing of salt, info and matrix *)

\* the other triples a derivation is compared with: the salts and infos of
\* the context checks, a salt that reads as the beginning of the encoding
\* of [[], []], and the well-formed matrices of the calls next to [[], []]
FramingSalts == ContextSalts \cup { Bytes(<< 0, 0, 0, 2, 0, 0, 0, 0 >>) }
FramingOptions ==
  { [NoOptions EXCEPT !.salt = sl, !.info = nf] : sl \in FramingSalts, nf \in ContextInfos }
FramingMatrices ==
  { m \in Matrices \cup GroupMatrices : assertMatrix(m) = "none" }
    \cup { Arr(<< Arr(<<>>), Arr(<<>>) >>) }

\* what the derivation just made would have fed to sha256 for matrix m and
\* options o (same purpose, same index and total)
InputFor(m, o) ==
  IF op \in SharedOps
  THEN deriveSharedSeed(m, Len(hashLog) - 1, Len(args.matrices), LastEntry.purpose, o).input
  ELSE deriveSeed(m, LastEntry.purpose, o).input

\* C15: for one purpose (and one index and total), two different triples
\* (salt bytes, info bytes, matrix) are never fed to sha256 as the same
\* bytes: the salt "ab" without info and the salt "a" with the info "b",
\* or a salt that reads as the beginning of a matrix encoding, give other
\* hash inputs and so other seeds.
C15_UnambiguousFraming ==
  JustDerived =>
    \A m \in FramingMatrices : \A o \in FramingOptions :
      << saltBytes(o), infoBytes(o), m >>
          # << saltBytes(args.options), infoBytes(args.options), LastMatrix >>
        => /\ InputFor(m, o) # LastEntry.input
           /\ sha256(InputFor(m, o)) # sha256(LastEntry.input)

====
